---- MODULE Spec2Model ----
(***************************************************************************)
(* Viterbi search over a time-indexed trellis (valhalla/meili):            *)
(* NaiveViterbiSearch (full dynamic programming), ViterbiSearch (lazy      *)
(* best-first search with pruning) and the backward StateIterator.         *)
(***************************************************************************)
EXTENDS Integers, Sequences, FiniteSets, TLC

\* ------------------------------------------------------------------ bounds
\* Largest number of columns (time steps) of a trellis.
MaxCols == 3
\* Largest number of states of a trellis.
MaxStates == 4
\* Largest total weight of the costs of a trellis that differ from 0: a
\* missing cost weighs 1 and a valid cost weighs its value.
MaxBudget == 1
\* The largest number of queries the host repeats after a Clear.
MaxCalls == 2

\* ------------------------------------------------------------- constants
\* kInvalidStateId is numeric_limits<uint32_t>::max(), that is (StateId)-1.
kInvalidStateId == -1
\* kInvalidTime is numeric_limits<uint32_t>::max(), that is (Time)-1.
kInvalidTime == -1
\* A null `const T*`; state pointers are modelled by the state's id.
nullptr == -2
\* numeric_limits<double>::infinity(): larger than every finite cost.
Infinity == 1000000
\* The host's "no cost" answer before an engine's sentinel stands for it.
NoCost == -1

VARIABLES
  tr,        \* the host's trellis and cost model (fixed during a behaviour)
  heapTie,   \* how the priority queue orders labels of equal cost
  ptrAsc,    \* whether state addresses grow with the state ids
  kind,      \* the engine the host constructed: "lazy" or "naive"
  Maximize,  \* the NaiveViterbiSearch template parameter
  lz,        \* the ViterbiSearch (lazy) engine
  nv,        \* the NaiveViterbiSearch engine
  it,        \* a StateIterator
  last,      \* the last public call: operation, argument, result
  walk,      \* the positions the iterator has shown since SearchPath
  host       \* the host's round trip: its phase and the queries it repeats

vars == <<tr, heapTie, ptrAsc, kind, Maximize, lz, nv, it, last, walk, host>>

\* ---------------------------------------------------------------- helpers
Min2(a, b) == IF a <= b THEN a ELSE b
Max2(a, b) == IF a >= b THEN a ELSE b

RECURSIVE SumSeq(_)
SumSeq(s) == IF s = <<>> THEN 0 ELSE Head(s) + SumSeq(Tail(s))

RemoveAt(s, i) == SubSeq(s, 1, i - 1) \o SubSeq(s, i + 1, Len(s))

IsPrefix(s, t) == Len(s) <= Len(t) /\ SubSeq(t, 1, Len(s)) = s

\* ---------------------------------------------------------------- trellis
\* A shape is the sequence of column widths; the states get dense ids in
\* insertion order, column after column.
Shapes ==
  {w \in UNION {[1..n -> 1..MaxStates] : n \in 0..MaxCols} : SumSeq(w) <= MaxStates}

Offset(w, t) == SumSeq(SubSeq(w, 1, t))

\* Column t (0-based) of a shape, as the sequence of its state ids.
ColumnIds(w, t) == [k \in 1..w[t + 1] |-> Offset(w, t) + k - 1]

ShapeCols(w) == [t1 \in 1..Len(w) |-> ColumnIds(w, t1 - 1)]

NumStates(w) == SumSeq(w)

TimeOf(w, id) == CHOOSE t \in 0..(Len(w) - 1) : Offset(w, t) <= id /\ id < Offset(w, t + 1)

\* The cost slots of a shape: <<i, i>> is the emission cost of state i and
\* <<i, j>> the transition cost from i to a state j of the next column.
Slots(w) ==
  {p \in (0..(NumStates(w) - 1)) \X (0..(NumStates(w) - 1)) :
      p[1] = p[2] \/ TimeOf(w, p[2]) = TimeOf(w, p[1]) + 1}

\* The weight of a cost and the costs a budget allows.
Weight(c) == IF c = NoCost THEN 1 ELSE c

CostValues(budget) == {0} \cup (IF budget >= 1 THEN {NoCost} \cup 1..budget ELSE {})

\* The cost functions on the slots S whose costs weigh at most budget in all.
RECURSIVE CostMaps(_, _)
CostMaps(S, budget) ==
  IF S = {} THEN {[x \in {} |-> 0]}
  ELSE LET s == CHOOSE x \in S : TRUE
       IN  UNION {{(s :> v) @@ g : g \in CostMaps(S \ {s}, budget - Weight(v))} :
                    v \in CostValues(budget)}

\* The host's trellis: the columns, each state's time and the cost model.
Trellis(w, c) ==
  [cols |-> ShapeCols(w),
   time |-> [i \in 0..(NumStates(w) - 1) |-> TimeOf(w, i)],
   cost |-> c]

\* The cost function that is f where f is defined and 0 elsewhere.
CostsOf(w, f) == [s \in Slots(w) |-> IF s \in DOMAIN f THEN f[s] ELSE 0]

\* The trellises of the concrete scenarios of the specification's section 8.
ScenarioStraight ==
  Trellis(<<1, 1, 1>>,
          CostsOf(<<1, 1, 1>>,
                  (<<0, 0>> :> 1) @@ (<<1, 1>> :> 1) @@ (<<2, 2>> :> 1) @@
                  (<<0, 1>> :> 2) @@ (<<1, 2>> :> 2)))
ScenarioBranching ==
  Trellis(<<2, 2>>,
          CostsOf(<<2, 2>>,
                  (<<1, 1>> :> 10) @@ (<<0, 2>> :> 1) @@ (<<0, 3>> :> 100) @@
                  (<<1, 2>> :> 100) @@ (<<1, 3>> :> 1)))
ScenarioBreakage ==
  Trellis(<<1, 1, 1>>,
          CostsOf(<<1, 1, 1>>, (<<0, 1>> :> NoCost) @@ (<<1, 2>> :> 1)))
ScenarioPruning ==
  Trellis(<<2, 1>>,
          CostsOf(<<2, 1>>, (<<1, 1>> :> 100) @@ (<<0, 2>> :> 1) @@ (<<1, 2>> :> 1)))
ScenarioMaximize ==
  Trellis(<<2, 1>>,
          CostsOf(<<2, 1>>,
                  (<<0, 0>> :> 1) @@ (<<1, 1>> :> 5) @@ (<<0, 2>> :> 10) @@ (<<1, 2>> :> 1)))

\* Two states of column 0 both reach state 2 of column 1, the dearer way
\* first; its neighbour 3 is never reached, so column 1 keeps an unreached
\* state; no two labels in the queue ever cost the same.
TrellisTwoWays ==
  Trellis(<<2, 2, 1>>,
          CostsOf(<<2, 2, 1>>,
                  (<<1, 1>> :> 1) @@ (<<0, 2>> :> 2) @@ (<<3, 3>> :> NoCost) @@
                  (<<2, 4>> :> 2)))

\* The same, and no transition leads from column 1 to column 2.
TrellisTwoWaysBreak ==
  Trellis(<<2, 2, 1>>,
          CostsOf(<<2, 2, 1>>,
                  (<<1, 1>> :> 1) @@ (<<0, 2>> :> 2) @@ (<<3, 3>> :> NoCost) @@
                  (<<2, 4>> :> NoCost)))

Scenarios ==
  {ScenarioStraight, ScenarioBranching, ScenarioBreakage, ScenarioPruning,
   ScenarioMaximize, TrellisTwoWays, TrellisTwoWaysBreak}

\* Every enumerated trellis: all costs 0 but a few, within the budget.
SparseTrellises ==
  UNION {{Trellis(w, c) : c \in CostMaps(Slots(w), MaxBudget)} : w \in Shapes}

Trellises == SparseTrellises \cup Scenarios

\* ------------------------------------------------------------ cost model
\* T::time() of the state with this id.
StateTime(id) == tr.time[id]

Label(c, a, p) == [costsofar |-> c, state |-> a, predecessor |-> p]

\* The pointer -> id conversion `p ? p->id() : kInvalidStateId`.
IdOf(p) == IF p = nullptr THEN kInvalidStateId ELSE p

\* ViterbiSearch: a cost is invalid when it is negative.
IsInvalidCost(cost) == cost < 0

Lazy_EmissionCost(state) == tr.cost[<<state, state>>]
Lazy_TransitionCost(left, right) == tr.cost[<<left, right>>]
Lazy_CostSofar(prev_costsofar, transition_cost, emission_cost) ==
  prev_costsofar + transition_cost + emission_cost

\* ------------------------------------------------------ priority queue
\* The queue holds its labels in the order they were pushed.
QueuePush(q, label) == Append(q, label)

QueueTopIndex(q) ==
  LET best == {i \in 1..Len(q) : \A j \in 1..Len(q) : q[i].costsofar <= q[j].costsofar}
  IN  IF heapTie = "fifo"
      THEN CHOOSE i \in best : \A j \in best : i <= j
      ELSE CHOOSE i \in best : \A j \in best : i >= j

QueueTop(q) == q[QueueTopIndex(q)]
QueuePop(q) == RemoveAt(q, QueueTopIndex(q))

\* ------------------------------------------------------- ViterbiSearch
\* The states of all columns in the order of their ids.
RECURSIVE Flatten(_)
Flatten(columns) ==
  IF columns = <<>> THEN <<>> ELSE Head(columns) \o Flatten(Tail(columns))

\* The columns after AddState placed `state` in column `time`.
AddToColumn(columns, time, state) ==
  LET grown == columns \o [k \in 1..(time + 1 - Len(columns)) |-> <<>>]
  IN  [grown EXCEPT ![time + 1] = Append(@, state)]

Lazy_Fresh(columns) ==
  [state_ |-> Flatten(columns),
   unreached_states_ |-> columns,
   winner_ |-> <<>>,
   queue_ |-> <<>>,
   scanned_labels_ |-> [i \in {} |-> 0],
   earliest_time_ |-> 0]

RECURSIVE Lazy_PushEmissions(_, _)
Lazy_PushEmissions(q, column) ==
  IF column = <<>> THEN q
  ELSE LET state == Head(column)
           emission_cost == Lazy_EmissionCost(state)
       IN  Lazy_PushEmissions(
             IF IsInvalidCost(emission_cost) THEN q
             ELSE QueuePush(q, Label(emission_cost, state, nullptr)),
             Tail(column))

Lazy_InitQueue(e, column) ==
  [e EXCEPT !.queue_ = Lazy_PushEmissions(<<>>, column)]

RECURSIVE Lazy_PushSuccessors(_, _, _, _)
Lazy_PushSuccessors(q, state, costsofar, column) ==
  IF column = <<>> THEN q
  ELSE LET next_state == Head(column)
           emission_cost == Lazy_EmissionCost(next_state)
           transition_cost == Lazy_TransitionCost(state, next_state)
           next_costsofar == Lazy_CostSofar(costsofar, transition_cost, emission_cost)
           q1 == IF IsInvalidCost(emission_cost) THEN q
                 ELSE IF IsInvalidCost(transition_cost) THEN q
                 ELSE IF IsInvalidCost(next_costsofar) THEN q
                 ELSE QueuePush(q, Label(next_costsofar, next_state, state))
       IN  Lazy_PushSuccessors(q1, state, costsofar, Tail(column))

\* Variant: the successors' costs leave out the cost accumulated so far.
Lazy_AddSuccessorsToQueue_FromZero(e, state) ==
  IF ~(StateTime(state) + 1 < Len(e.unreached_states_))
  THEN [e |-> e, err |-> "impossible to have successors"]
  ELSE IF state \notin DOMAIN e.scanned_labels_
  THEN [e |-> e, err |-> "the state must be scanned"]
  ELSE IF IsInvalidCost(e.scanned_labels_[state].costsofar)
  THEN [e |-> e, err |-> "impossible to get invalid cost from scanned labels"]
  ELSE [e |-> [e EXCEPT !.queue_ =
                  Lazy_PushSuccessors(e.queue_, state, 0,
                                      e.unreached_states_[StateTime(state) + 2])],
        err |-> "none"]

\* Returns the engine and the logic_error thrown ("none" when none is).
Lazy_AddSuccessorsToQueue(e, state) ==
  IF ~(StateTime(state) + 1 < Len(e.unreached_states_))
  THEN [e |-> e, err |-> "impossible to have successors"]
  ELSE IF state \notin DOMAIN e.scanned_labels_
  THEN [e |-> e, err |-> "the state must be scanned"]
  ELSE IF IsInvalidCost(e.scanned_labels_[state].costsofar)
  THEN [e |-> e, err |-> "impossible to get invalid cost from scanned labels"]
  ELSE [e |-> [e EXCEPT !.queue_ =
                  Lazy_PushSuccessors(e.queue_, state, e.scanned_labels_[state].costsofar,
                                      e.unreached_states_[StateTime(state) + 2])],
        err |-> "none"]

\* Variant: the watermark rises with every settled state.
Lazy_EarliestTime_Always(earliest_time, column, time) == time + 1

\* if (column.empty()) earliest_time_ = time + 1: the watermark after the
\* settled state left `column`.
Lazy_EarliestTime(earliest_time, column, time) ==
  IF column = <<>> THEN time + 1 ELSE earliest_time

\* Variant: a later state of a time replaces that time's winner.
Lazy_MarkWinner_Overwrite(winner, state, time) ==
  IF Len(winner) <= time THEN Append(winner, state)
  ELSE [winner EXCEPT ![time + 1] = state]

\* if (winner_.size() <= time) winner_.push_back(state)
Lazy_MarkWinner(winner, state, time) ==
  IF Len(winner) <= time THEN Append(winner, state) ELSE winner

\* The while (!queue_.empty()) loop of IterativeSearch returns the engine,
\* the searched time and the logic_error thrown ("none" when none is). Its
\* body is split where the code branches.
RECURSIVE Lazy_SearchLoop(_, _, _)

\* The successors were pushed (or pushing them threw): the next turn.
Lazy_NextTurn(a, target, searched_time) ==
  IF a.err # "none" THEN [e |-> a.e, time |-> searched_time, err |-> a.err]
  ELSE Lazy_SearchLoop(a.e, target, searched_time)

\* Variant: the loop does not stop at the target.
Lazy_BreakOrExpand_Always(e, state, target, searched_time) ==
  Lazy_NextTurn(Lazy_AddSuccessorsToQueue(e, state), target, searched_time)

\* if (target <= searched_time) break; AddSuccessorsToQueue(state);
Lazy_BreakOrExpand(e, state, target, searched_time) ==
  IF target <= searched_time THEN [e |-> e, time |-> searched_time, err |-> "none"]
  ELSE Lazy_NextTurn(Lazy_AddSuccessorsToQueue(e, state), target, searched_time)

\* The first state to arrive at its column is the winner at its time.
Lazy_Arrive(e, state, time, target, searched_time) ==
  IF Len(e.winner_) <= time /\ ~(time = Len(e.winner_))
  THEN [e |-> e, time |-> searched_time, err |-> "found a state from the future time"]
  ELSE Lazy_BreakOrExpand([e EXCEPT !.winner_ = Lazy_MarkWinner(e.winner_, state, time)],
                          state, target, Max2(time, searched_time))

\* Variant: the watermark falls back to 0 while the column keeps a state.
Lazy_Erase_Reset(e, time, column) ==
  [e EXCEPT !.unreached_states_[time + 1] = column,
            !.earliest_time_ = IF column = <<>> THEN time + 1 ELSE 0]

\* column.erase(it), and the watermark after it.
Lazy_Erase(e, time, column) ==
  [e EXCEPT !.unreached_states_[time + 1] = column,
            !.earliest_time_ = Lazy_EarliestTime(e.earliest_time_, column, time)]

\* Variant: the search in the column stops at its first state.
Lazy_Find_First(column, id) == {i \in 1..Len(column) : i = 1}

\* std::find_if: the positions of the state in its column.
Lazy_Find(column, id) == {i \in 1..Len(column) : column[i] = id}

\* Remove the settled state from its column.
Lazy_Remove(e, state, time, found, target, searched_time) ==
  IF found = {}
  THEN [e |-> e, time |-> searched_time, err |-> "the state must exist in the column"]
  ELSE Lazy_Arrive(Lazy_Erase(e, time,
                              RemoveAt(e.unreached_states_[time + 1],
                                       CHOOSE i \in found : \A j \in found : i <= j)),
                   state, time, target, searched_time)

\* The label popped from the queue: skipped when stale, else settled.
Lazy_Scan(e, label, target, searched_time) ==
  IF StateTime(label.state) < e.earliest_time_
  THEN Lazy_SearchLoop(e, target, searched_time)
  ELSE IF label.state \in DOMAIN e.scanned_labels_
  THEN [e |-> e, time |-> searched_time,
        err |-> "the principle of optimality is violated"]
  ELSE Lazy_Remove([e EXCEPT !.scanned_labels_ = (label.state :> label) @@ e.scanned_labels_],
                   label.state, StateTime(label.state),
                   Lazy_Find(e.unreached_states_[StateTime(label.state) + 1], label.state),
                   target, searched_time)

Lazy_SearchLoop(e, target, searched_time) ==
  IF e.queue_ = <<>> THEN [e |-> e, time |-> searched_time, err |-> "none"]
  ELSE Lazy_Scan([e EXCEPT !.queue_ = QueuePop(e.queue_)], QueueTop(e.queue_),
                 target, searched_time)

\* while (winner_.size() <= searched_time) winner_.push_back(nullptr)
RECURSIVE Lazy_PadWinners(_, _)
Lazy_PadWinners(winner, searched_time) ==
  IF Len(winner) <= searched_time
  THEN Lazy_PadWinners(Append(winner, nullptr), searched_time)
  ELSE winner

\* Variant: every search starts anew from the emissions of a column.
Lazy_ContinueLast_Never(winner, request_new_start) == FALSE

\* Whether IterativeSearch continues the last search rather than starting one.
Lazy_ContinueLast(winner, request_new_start) ==
  ~request_new_start /\ winner # <<>> /\ winner[Len(winner)] # nullptr

\* Variant: the winners are not padded up to the searched time.
Lazy_Padded_NoPad(r) == r

\* The tail of IterativeSearch: pad the winners up to the searched time.
Lazy_Padded(r) ==
  IF r.err # "none" THEN r
  ELSE [e |-> [r.e EXCEPT !.winner_ = Lazy_PadWinners(r.e.winner_, r.time)],
        time |-> r.time, err |-> "none"]

\* The search from the seeded queue, a being the outcome of the seeding.
Lazy_SearchFrom(a, source, target) ==
  IF a.err # "none" THEN [e |-> a.e, time |-> source, err |-> a.err]
  ELSE Lazy_Padded(Lazy_SearchLoop(a.e, target, source))

\* Variant: every search is seeded with the emissions of the next column.
Lazy_Start_Reseed(e, target, continue) ==
  Lazy_SearchFrom([e |-> Lazy_InitQueue(e, e.unreached_states_[Len(e.winner_) + 1]),
                   err |-> "none"],
                  Len(e.winner_), target)

\* Either continue the last search or start a new one, and search.
Lazy_Start(e, target, continue) ==
  IF continue
  THEN Lazy_SearchFrom(Lazy_AddSuccessorsToQueue(e, e.winner_[Len(e.winner_)]),
                       Len(e.winner_) - 1, target)
  ELSE Lazy_SearchFrom([e |-> Lazy_InitQueue(e, e.unreached_states_[Len(e.winner_) + 1]),
                        err |-> "none"],
                       Len(e.winner_), target)

\* Returns the engine, the searched time and the error thrown, if any.
Lazy_IterativeSearch(e, target, request_new_start) ==
  IF Len(e.unreached_states_) <= target
  THEN [e |-> e, time |-> kInvalidTime,
        err |-> IF e.unreached_states_ = <<>> THEN "empty states"
                ELSE "the target time is beyond the maximum allowed time"]
  ELSE IF target < Len(e.winner_)
  THEN [e |-> e, time |-> target, err |-> "none"]
  ELSE Lazy_Start(e, target, Lazy_ContinueLast(e.winner_, request_new_start))

\* while (searched_time < target) searched_time = IterativeSearch(target, true)
RECURSIVE Lazy_RestartLoop(_, _)
Lazy_RestartLoop(r, target) ==
  IF r.err # "none" \/ ~(r.time < target) THEN r
  ELSE Lazy_RestartLoop(Lazy_IterativeSearch(r.e, target, TRUE), target)

\* Variant: the answer is the winner at the clamped target time.
Lazy_Answer_Clamped(winner, time) ==
  IF winner # <<>> /\ winner[Min2(time + 1, Len(winner))] # nullptr
  THEN winner[Min2(time + 1, Len(winner))] ELSE kInvalidStateId

\* The last statement of SearchWinner: the winner at `time`, if there is one.
Lazy_Answer(winner, time) ==
  IF time < Len(winner) /\ winner[time + 1] # nullptr
  THEN winner[time + 1] ELSE kInvalidStateId

\* What SearchWinner returns after its searches ended as r.
Lazy_Return(r, time) ==
  IF r.err # "none" THEN [e |-> r.e, ret |-> kInvalidStateId, err |-> r.err]
  ELSE [e |-> r.e, ret |-> Lazy_Answer(r.e.winner_, time), err |-> "none"]

\* The searches of SearchWinner for the clamped target.
Lazy_SearchTarget(e, target) ==
  Lazy_RestartLoop(Lazy_IterativeSearch(e, target, FALSE), target)

\* Variant: the target is the time asked for, neither checked nor clamped.
Lazy_SearchWinner_Unclamped(e, time) ==
  IF time < Len(e.winner_)
  THEN [e |-> e, ret |-> IdOf(e.winner_[time + 1]), err |-> "none"]
  ELSE Lazy_Return(Lazy_SearchTarget(e, time), time)

\* Returns the engine, the returned StateId and the error thrown, if any.
Lazy_SearchWinner(e, time) ==
  IF time < Len(e.winner_)
  THEN [e |-> e, ret |-> IdOf(e.winner_[time + 1]), err |-> "none"]
  ELSE IF e.unreached_states_ = <<>>
  THEN [e |-> e, ret |-> kInvalidStateId, err |-> "none"]
  ELSE Lazy_Return(Lazy_SearchTarget(e, Min2(time, Len(e.unreached_states_) - 1)), time)

Lazy_predecessor(e, id) ==
  IF id \in DOMAIN e.scanned_labels_
  THEN IdOf(e.scanned_labels_[id].predecessor)
  ELSE kInvalidStateId

Lazy_AccumulatedCost(e, id) ==
  IF id \notin DOMAIN e.scanned_labels_ THEN -1
  ELSE e.scanned_labels_[id].costsofar

\* Clear with the pruning watermark left as it was.
Lazy_Clear_KeepsWatermark(e) ==
  [e EXCEPT !.queue_ = <<>>,
            !.scanned_labels_ = [i \in {} |-> 0],
            !.unreached_states_ = <<>>,
            !.winner_ = <<>>,
            !.state_ = <<>>]

Lazy_Clear(e) ==
  [e EXCEPT !.earliest_time_ = 0,
            !.queue_ = <<>>,
            !.scanned_labels_ = [i \in {} |-> 0],
            !.unreached_states_ = <<>>,
            !.winner_ = <<>>,
            !.state_ = <<>>]

\* AddState: the next id, placed in the column of `time`.
Lazy_AddState(e, time) ==
  [e EXCEPT !.unreached_states_ = AddToColumn(@, time, Len(e.state_)),
            !.state_ = Append(@, Len(e.state_))]

\* -------------------------------------------------- NaiveViterbiSearch
kInvalidCost == IF Maximize THEN -Infinity ELSE Infinity

Naive_EmissionCost(state) ==
  IF tr.cost[<<state, state>>] = NoCost THEN kInvalidCost ELSE tr.cost[<<state, state>>]
Naive_TransitionCost(left, right) ==
  IF tr.cost[<<left, right>>] = NoCost THEN kInvalidCost ELSE tr.cost[<<left, right>>]
Naive_CostSofar(prev_costsofar, transition_cost, emission_cost) ==
  prev_costsofar + transition_cost + emission_cost

\* The order of two state addresses; the null pointer is below all of them.
PointerLess(p, q) ==
  IF p = q THEN FALSE
  ELSE IF p = nullptr THEN TRUE
  ELSE IF q = nullptr THEN FALSE
  ELSE IF ptrAsc THEN p < q ELSE p > q

\* operator< of two labels: cost, then state, then predecessor.
LabelLess(a, b) ==
  \/ a.costsofar < b.costsofar
  \/ a.costsofar = b.costsofar /\ PointerLess(a.state, b.state)
  \/ a.costsofar = b.costsofar /\ a.state = b.state
       /\ PointerLess(a.predecessor, b.predecessor)

StdMin(a, b) == IF LabelLess(b, a) THEN b ELSE a
StdMax(a, b) == IF LabelLess(a, b) THEN b ELSE a

Naive_Fresh(columns) ==
  [state_ |-> Flatten(columns), states_ |-> columns, winner_ |-> <<>>, history_ |-> <<>>]

Naive_InitLabels(column, use_emission_cost) ==
  [k \in 1..Len(column) |->
     Label(IF use_emission_cost THEN Naive_EmissionCost(column[k]) ELSE kInvalidCost,
           column[k], nullptr)]

\* The inner loop's body with the polarity ignored: always the smaller label.
Naive_Relax_Min(label, prev_label) ==
  LET state == label.state
      prev_state == prev_label.state
      emission_cost == Naive_EmissionCost(state)
      transition_cost == Naive_TransitionCost(prev_state, state)
      costsofar == Naive_CostSofar(prev_label.costsofar, transition_cost, emission_cost)
  IN  IF kInvalidCost = emission_cost THEN label
      ELSE IF kInvalidCost = transition_cost THEN label
      ELSE IF kInvalidCost = costsofar THEN label
      ELSE StdMin(Label(costsofar, state, prev_state), label)

\* The body of the inner loop of UpdateLabels for one label.
Naive_Relax(label, prev_label) ==
  LET state == label.state
      prev_state == prev_label.state
      emission_cost == Naive_EmissionCost(state)
      transition_cost == Naive_TransitionCost(prev_state, state)
      costsofar == Naive_CostSofar(prev_label.costsofar, transition_cost, emission_cost)
  IN  IF kInvalidCost = emission_cost THEN label
      ELSE IF kInvalidCost = transition_cost THEN label
      ELSE IF kInvalidCost = costsofar THEN label
      ELSE IF Maximize THEN StdMax(Label(costsofar, state, prev_state), label)
      ELSE StdMin(Label(costsofar, state, prev_state), label)

RECURSIVE Naive_UpdateLabels(_, _)
Naive_UpdateLabels(labels, prev_labels) ==
  IF prev_labels = <<>> THEN labels
  ELSE LET prev_label == Head(prev_labels)
       IN  IF kInvalidCost = prev_label.costsofar
           THEN Naive_UpdateLabels(labels, Tail(prev_labels))
           ELSE Naive_UpdateLabels(
                  [k \in 1..Len(labels) |-> Naive_Relax(labels[k], prev_label)],
                  Tail(prev_labels))

\* std::min_element / std::max_element return the first optimal element.
Naive_FindWinner(labels) ==
  IF labels = <<>> THEN nullptr
  ELSE LET best == IF Maximize
                   THEN {i \in 1..Len(labels) :
                           \A j \in 1..Len(labels) : labels[j].costsofar <= labels[i].costsofar}
                   ELSE {i \in 1..Len(labels) :
                           \A j \in 1..Len(labels) : labels[i].costsofar <= labels[j].costsofar}
           first == CHOOSE i \in best : \A j \in best : i <= j
       IN  IF labels[first].costsofar = kInvalidCost THEN nullptr
           ELSE labels[first].state

\* One turn of the for loop of SearchWinner.
Naive_SearchColumn(e, time) ==
  LET column == e.states_[time + 1]
      labels == IF time = 0 THEN Naive_InitLabels(column, TRUE)
                ELSE Naive_UpdateLabels(Naive_InitLabels(column, FALSE),
                                        e.history_[Len(e.history_)])
      winner == Naive_FindWinner(labels)
      restart == winner = nullptr /\ time > 0
      labels1 == IF restart THEN Naive_InitLabels(column, TRUE) ELSE labels
      winner1 == IF restart THEN Naive_FindWinner(labels1) ELSE winner
  IN  [e EXCEPT !.winner_ = Append(e.winner_, winner1),
                !.history_ = Append(e.history_, labels1)]

RECURSIVE Naive_SearchColumns(_, _, _)
Naive_SearchColumns(e, time, target) ==
  IF time <= target THEN Naive_SearchColumns(Naive_SearchColumn(e, time), time + 1, target)
  ELSE e

\* Returns the engine, the returned StateId and the error thrown (never one).
Naive_SearchWinner(e, target) ==
  IF Len(e.states_) <= target
  THEN [e |-> e, ret |-> kInvalidStateId, err |-> "none"]
  ELSE IF target < Len(e.winner_)
  THEN [e |-> e, ret |-> IdOf(e.winner_[target + 1]), err |-> "none"]
  ELSE LET e1 == Naive_SearchColumns(e, Len(e.winner_), target)
       IN  [e |-> e1, ret |-> IdOf(e1.winner_[target + 1]), err |-> "none"]

\* The label of a state whose column has been searched.
Naive_label(e, state) ==
  LET labels == e.history_[StateTime(state) + 1]
  IN  labels[CHOOSE k \in 1..Len(labels) : labels[k].state = state]

Naive_predecessor(e, id) ==
  IF id # kInvalidStateId THEN IdOf(Naive_label(e, id).predecessor)
  ELSE kInvalidStateId

Naive_AccumulatedCost(e, id) ==
  IF id # kInvalidStateId THEN Naive_label(e, id).costsofar ELSE kInvalidCost

Naive_Clear(e) ==
  [e EXCEPT !.history_ = <<>>,
            !.states_ = <<>>,
            !.winner_ = <<>>,
            !.state_ = <<>>]

Naive_AddState(e, time) ==
  [e EXCEPT !.states_ = AddToColumn(@, time, Len(e.state_)),
            !.state_ = Append(@, Len(e.state_))]

\* ------------------------------------------------------- StateIterator
EndIterator(vs) == [vs_ |-> vs, id_ |-> kInvalidStateId, time_ |-> kInvalidTime]

is_end(i) == i.id_ = kInvalidStateId /\ i.time_ = kInvalidTime

\* The virtual calls of IViterbiSearch on an engine e of kind vs.
Engine_SearchWinner(vs, e, time) ==
  IF vs = "lazy" THEN Lazy_SearchWinner(e, time) ELSE Naive_SearchWinner(e, time)

Engine_predecessor(vs, e, id) ==
  IF vs = "lazy" THEN Lazy_predecessor(e, id) ELSE Naive_predecessor(e, id)

Engine_AccumulatedCost(vs, e, id) ==
  IF vs = "lazy" THEN Lazy_AccumulatedCost(e, id) ELSE Naive_AccumulatedCost(e, id)

Engine_Clear(vs, e) == IF vs = "lazy" THEN Lazy_Clear(e) ELSE Naive_Clear(e)

Engine_AddState(vs, e, time) ==
  IF vs = "lazy" THEN Lazy_AddState(e, time) ELSE Naive_AddState(e, time)

\* if (id_ == kInvalidStateId) id_ = vs_->SearchWinner(time_), for the id the
\* predecessor call gave and the decremented time.
\* Variant: the winner is asked for whether or not there is a predecessor.
goback_Resume_Always(i, e, id, time) == Engine_SearchWinner(i.vs_, e, time)

goback_Resume(i, e, id, time) ==
  IF id = kInvalidStateId THEN Engine_SearchWinner(i.vs_, e, time)
  ELSE [e |-> e, ret |-> id, err |-> "none"]

\* The iterator after the step, and the assertion on it.
goback_Landed(i, r, time) ==
  [it |-> [i EXCEPT !.id_ = r.ret, !.time_ = time],
   e |-> r.e,
   err |-> IF r.err # "none" THEN r.err
           ELSE IF r.ret = kInvalidStateId \/ StateTime(r.ret) = time THEN "none"
           ELSE "assertion failed"]

\* Variant: the iterator ends where no winner is found.
goback_LandedOrEnd(i, r, time) ==
  [it |-> IF r.ret = kInvalidStateId THEN EndIterator(i.vs_)
          ELSE [i EXCEPT !.id_ = r.ret, !.time_ = time],
   e |-> r.e,
   err |-> r.err]

\* Variant: across a breakage the winner is asked for the time left behind.
goback_SameTime(i, e) ==
  IF i.time_ > 0
  THEN goback_Landed(i, goback_Resume(i, e, Engine_predecessor(i.vs_, e, i.id_), i.time_),
                     i.time_ - 1)
  ELSE [it |-> EndIterator(i.vs_), e |-> e, err |-> "none"]

\* Variant: the iterator ends where no winner is found.
goback_EndsEarly(i, e) ==
  IF i.time_ > 0
  THEN goback_LandedOrEnd(i, goback_Resume(i, e, Engine_predecessor(i.vs_, e, i.id_),
                                           i.time_ - 1),
                          i.time_ - 1)
  ELSE [it |-> EndIterator(i.vs_), e |-> e, err |-> "none"]

\* goback() of iterator i on its engine e: the iterator and the engine after
\* the step, and the exception or failed assertion that ended it, if any.
goback(i, e) ==
  IF i.time_ > 0
  THEN goback_Landed(i, goback_Resume(i, e, Engine_predecessor(i.vs_, e, i.id_),
                                      i.time_ - 1),
                     i.time_ - 1)
  ELSE [it |-> EndIterator(i.vs_), e |-> e, err |-> "none"]

\* ------------------------------------------------------------- actions
Times == 0..MaxCols

\* A call's record: the operation, its argument, what it returned, the error
\* it threw and the length of the winner cache before it.
Called(op, arg, ret, err, pre) ==
  [op |-> op, arg |-> arg, ret |-> ret, err |-> err, pre |-> pre]

\* The host before any query: nothing to repeat yet.
FirstRun == [phase |-> "first", calls |-> <<>>]

Init ==
  /\ tr \in Trellises
  /\ kind \in {"lazy", "naive"}
  /\ heapTie \in (IF kind = "lazy" THEN {"fifo", "lifo"} ELSE {"fifo"})
  /\ ptrAsc \in (IF kind = "naive" THEN BOOLEAN ELSE {TRUE})
  /\ Maximize = FALSE
  /\ lz = Lazy_Fresh(tr.cols)
  /\ nv = Naive_Fresh(tr.cols)
  /\ it = EndIterator("none")
  /\ last = Called("none", 0, kInvalidStateId, "none", 0)
  /\ walk = <<>>
  /\ host = FirstRun

\* A fatal error ends the host's use of the engine.
Usable == last.err = "none"

\* The host's engine and the length of its winner cache.
Engine == IF kind = "lazy" THEN lz ELSE nv
Searched == Len(Engine.winner_)

\* The engine after a call that left it as e.
SetEngine(e) == IF kind = "lazy" THEN lz' = e /\ nv' = nv ELSE nv' = e /\ lz' = lz

\* The host's engine, call record, iterator and walk after SearchWinner(time)
\* ended as r.
SearchWinner_Done(r, time) ==
  /\ SetEngine(r.e)
  /\ last' = Called("SearchWinner", time, r.ret, r.err, Searched)

SearchPath_Done(r, time) ==
  /\ SetEngine(r.e)
  /\ it' = IF r.err = "none" THEN [vs_ |-> kind, id_ |-> r.ret, time_ |-> time] ELSE it
  /\ walk' = IF r.err = "none" THEN <<[id |-> r.ret, time |-> time]>> ELSE walk
  /\ last' = Called("SearchPath", time, r.ret, r.err, Searched)

Increment_Done(r) ==
  /\ SetEngine(r.e)
  /\ it' = r.it
  /\ walk' = IF is_end(r.it) THEN walk
             ELSE Append(walk, [id |-> r.it.id_, time |-> r.it.time_])
  /\ last' = Called("operator++", it.time_, r.it.id_, r.err, Searched)

\* IViterbiSearch::SearchWinner, dispatched to the host's engine.
SearchWinner(time) ==
  /\ Usable
  /\ SearchWinner_Done(Engine_SearchWinner(kind, Engine, time), time)
  /\ UNCHANGED <<tr, heapTie, ptrAsc, kind, Maximize, it, walk, host>>

\* IViterbiSearch::SearchPath: the iterator at the winner of `time`.
SearchPath(time) ==
  /\ Usable
  /\ SearchPath_Done(Engine_SearchWinner(kind, Engine, time), time)
  /\ UNCHANGED <<tr, heapTie, ptrAsc, kind, Maximize, host>>

\* operator++ of the iterator.
Increment ==
  /\ Usable
  /\ it.vs_ # "none"
  /\ ~is_end(it)
  /\ Increment_Done(goback(it, Engine))
  /\ UNCHANGED <<tr, heapTie, ptrAsc, kind, Maximize, host>>

Next == \E time \in Times : SearchWinner(time)

Spec == Init /\ [][Next]_vars

NextPath ==
  \/ \E time \in Times : SearchPath(time)
  \/ Increment

SpecPath == Init /\ [][NextPath]_vars

\* NaiveViterbiSearch<T, true>: the host instantiated the maximizing engine.
InitMax ==
  /\ tr \in Trellises
  /\ kind = "naive"
  /\ heapTie = "fifo"
  /\ ptrAsc \in BOOLEAN
  /\ Maximize = TRUE
  /\ lz = Lazy_Fresh(tr.cols)
  /\ nv = Naive_Fresh(tr.cols)
  /\ it = EndIterator("none")
  /\ last = Called("none", 0, kInvalidStateId, "none", 0)
  /\ walk = <<>>
  /\ host = FirstRun

SpecMax == InitMax /\ [][Next]_vars

\* ---------------------------------------------- Clear and rebuild
\* The trellises of the round trip: the scenarios and, for every shape, the
\* trellis whose costs are all 0 (every predecessor ties with every other).
ClearTrellises == Scenarios \cup {Trellis(w, CostsOf(w, <<>>)) : w \in Shapes}

InitClear ==
  /\ tr \in ClearTrellises
  /\ kind \in {"lazy", "naive"}
  /\ heapTie \in (IF kind = "lazy" THEN {"fifo", "lifo"} ELSE {"fifo"})
  /\ ptrAsc \in (IF kind = "naive" THEN BOOLEAN ELSE {TRUE})
  /\ Maximize = FALSE
  /\ lz = Lazy_Fresh(tr.cols)
  /\ nv = Naive_Fresh(tr.cols)
  /\ it = EndIterator("none")
  /\ last = Called("none", 0, kInvalidStateId, "none", 0)
  /\ walk = <<>>
  /\ host = FirstRun

\* Whether the engine holds every state of the host's trellis.
Built == Len(Engine.state_) = Cardinality(DOMAIN tr.time)

\* A query of the first run, remembered with its outcome.
Query_Done(r, time) ==
  /\ SearchWinner_Done(r, time)
  /\ host' = [host EXCEPT !.calls = Append(@, [time |-> time, ret |-> r.ret, err |-> r.err])]

Query(time) ==
  /\ Usable
  /\ host.phase = "first"
  /\ Len(host.calls) < MaxCalls
  /\ Query_Done(Engine_SearchWinner(kind, Engine, time), time)
  /\ UNCHANGED <<tr, heapTie, ptrAsc, kind, Maximize, it, walk>>

\* Clear(), also the way out of a fatal error.
Clear ==
  /\ host.phase = "first"
  /\ SetEngine(Engine_Clear(kind, Engine))
  /\ last' = Called("Clear", 0, kInvalidStateId, "none", Searched)
  /\ host' = [host EXCEPT !.phase = "rebuild"]
  /\ UNCHANGED <<tr, heapTie, ptrAsc, kind, Maximize, it, walk>>

\* The host adds the next state of its trellis again; the new states are
\* allocated anew, so their addresses may be ordered either way.
AddState ==
  /\ host.phase = "rebuild"
  /\ ~Built
  /\ SetEngine(Engine_AddState(kind, Engine, tr.time[Len(Engine.state_)]))
  /\ ptrAsc' \in (IF kind = "naive" /\ Engine.state_ = <<>> THEN BOOLEAN ELSE {ptrAsc})
  /\ last' = Called("AddState", tr.time[Len(Engine.state_)], Len(Engine.state_), "none", Searched)
  /\ UNCHANGED <<tr, heapTie, kind, Maximize, it, walk, host>>

\* The host repeats the next query of the first run on the rebuilt engine.
Requery ==
  /\ Usable
  /\ host.phase \in {"rebuild", "replay"}
  /\ Built
  /\ host.calls # <<>>
  /\ SearchWinner_Done(Engine_SearchWinner(kind, Engine, Head(host.calls).time),
                       Head(host.calls).time)
  /\ host' = [phase |-> "replay", calls |-> Tail(host.calls)]
  /\ UNCHANGED <<tr, heapTie, ptrAsc, kind, Maximize, it, walk>>

NextClear ==
  \/ \E time \in Times : Query(time)
  \/ Clear
  \/ AddState
  \/ Requery

SpecClear == InitClear /\ [][NextClear]_vars

\* ------------------------------------------------- reference notions
NumCols == Len(tr.cols)
ColumnSet(t) == {tr.cols[t + 1][k] : k \in 1..Len(tr.cols[t + 1])}
ValidEmission(id) == tr.cost[<<id, id>>] # NoCost
ValidTransition(i, j) == tr.cost[<<i, j>>] # NoCost
SetMin(S) == CHOOSE x \in S : \A y \in S : x <= y
NoPath == NoCost

\* The least cost of a path of valid emissions and transitions that starts
\* in column s and ends in state id (NoPath when there is none).
RECURSIVE BestFrom(_, _)
BestFrom(s, id) ==
  IF ~ValidEmission(id) \/ tr.time[id] < s THEN NoPath
  ELSE IF tr.time[id] = s THEN tr.cost[<<id, id>>]
  ELSE LET through == {p \in ColumnSet(tr.time[id] - 1) :
                          ValidTransition(p, id) /\ BestFrom(s, p) # NoPath}
       IN  IF through = {} THEN NoPath
           ELSE SetMin({BestFrom(s, p) + tr.cost[<<p, id>>] + tr.cost[<<id, id>>] :
                          p \in through})

\* The column the paths into column t start from: column 0, or the last
\* column at or before t that no path from its own start column reaches.
RECURSIVE Origin(_)
Origin(t) ==
  IF t = 0 THEN 0
  ELSE IF \E id \in ColumnSet(t) : BestFrom(Origin(t - 1), id) # NoPath
  THEN Origin(t - 1)
  ELSE t

\* The winner cache entry of time t of engine e as a StateId.
WinnerOf(e, t) == IF t < Len(e.winner_) THEN IdOf(e.winner_[t + 1]) ELSE kInvalidStateId
WinnerAt(t) == WinnerOf(Engine, t)

\* --------------------------------------------------------------- claims
\* C1: on a fixed trellis the winner cache only grows by appending and no
\* entry is overwritten; SearchWinner(t) that returns gives the cache entry of
\* t (absent past the last column), so a repeated call, also after a later
\* SearchWinner(t') with t' >= t, returns the same value.
C1_MonotoneAnswer ==
  [][/\ IsPrefix(lz.winner_, lz'.winner_)
     /\ IsPrefix(nv.winner_, nv'.winner_)
     /\ (last'.op = "SearchWinner" /\ last'.err = "none") =>
          /\ last'.arg < Searched => last'.ret = WinnerAt(last'.arg)
          /\ last'.arg < NumCols =>
               /\ last'.arg < Searched'
               /\ last'.ret = WinnerOf(Engine', last'.arg)
          /\ last'.arg >= NumCols => last'.ret = kInvalidStateId]_vars

\* C1 witness: a repeated query of a time whose winner exists is answered
\* after the search has gone on to a later time.
C1_Witness ==
  /\ last.op = "SearchWinner" /\ last.err = "none"
  /\ last.arg + 1 < last.pre
  /\ last.ret # kInvalidStateId
  /\ Engine.winner_[Searched] # nullptr

\* C2: whatever SearchWinner calls led here, the lazy engine's winner cache
\* and settled labels are those of a fresh engine asked once for the latest
\* time searched: continuing from winner[t1] gives what one search gives.
C2_IncrementalEqualsOneShot ==
  (kind = "lazy" /\ last.op = "SearchWinner" /\ (last.err # "none" \/ lz.winner_ # <<>>)) =>
    LET target == IF last.err # "none" THEN last.arg ELSE Len(lz.winner_) - 1
        one == Lazy_SearchWinner(Lazy_Fresh(tr.cols), target)
    IN  /\ lz.winner_ = one.e.winner_
        /\ lz.scanned_labels_ = one.e.scanned_labels_
        /\ last.err = one.err

\* C2 witness: the last call continued an earlier search from its winner and
\* settled a winner with a predecessor at a later time.
C2_Witness ==
  /\ kind = "lazy" /\ last.op = "SearchWinner" /\ last.err = "none"
  /\ last.pre > 0 /\ Len(lz.winner_) > last.pre
  /\ lz.winner_[last.pre] # nullptr
  /\ lz.winner_[Len(lz.winner_)] # nullptr
  /\ Lazy_predecessor(lz, lz.winner_[Len(lz.winner_)]) # kInvalidStateId

\* The precondition of the lazy engine: no cost is negative.
NonNegativeCosts == \A s \in DOMAIN tr.cost : tr.cost[s] = NoCost \/ tr.cost[s] >= 0

\* The other engine's answer for time t, from a fresh engine of that kind.
OtherKind == IF kind = "lazy" THEN "naive" ELSE "lazy"
OtherFresh == IF kind = "lazy" THEN Naive_Fresh(tr.cols) ELSE Lazy_Fresh(tr.cols)
OtherSearch(t) == Engine_SearchWinner(OtherKind, OtherFresh, t)

\* C3: for the time t just queried, the other engine (minimizing), asked for
\* t on the same trellis, returns as this one did: both have a winner or
\* neither has, and the two winners' accumulated costs are equal.
C3_LazyNaiveAgree ==
  (NonNegativeCosts /\ last.op = "SearchWinner") =>
    LET o == OtherSearch(last.arg)
    IN  /\ last.err = "none"
        /\ o.err = "none"
        /\ (last.ret = kInvalidStateId) <=> (o.ret = kInvalidStateId)
        /\ last.ret # kInvalidStateId =>
             Engine_AccumulatedCost(kind, Engine, last.ret) =
             Engine_AccumulatedCost(OtherKind, o.e, o.ret)

\* C4 as stated: every settled label's cost is the least cost of a valid path
\* from a state of column 0 to its state.
C4_SettledFromTimeZero ==
  kind = "lazy" =>
    \A id \in DOMAIN lz.scanned_labels_ :
      /\ BestFrom(0, id) # NoPath
      /\ lz.scanned_labels_[id].costsofar = BestFrom(0, id)

\* C4 amended: every settled label's cost is the least cost of a valid path
\* to its state from a state of the column its search started in: column 0,
\* or the last column at or before it that no path reached (a restart).
C4_SettledOptimal ==
  kind = "lazy" =>
    \A id \in DOMAIN lz.scanned_labels_ :
      /\ BestFrom(Origin(tr.time[id]), id) # NoPath
      /\ lz.scanned_labels_[id].costsofar = BestFrom(Origin(tr.time[id]), id)

\* C4 witness: a state settled through a transition after a restart, at a
\* cost above its emission cost.
C4_Witness ==
  /\ kind = "lazy"
  /\ \E id \in DOMAIN lz.scanned_labels_ :
       /\ Origin(tr.time[id]) > 0
       /\ lz.scanned_labels_[id].predecessor # nullptr
       /\ lz.scanned_labels_[id].costsofar > tr.cost[<<id, id>>]

\* C5: with non-negative costs and additive CostSofar no SearchWinner call
\* raises "the principle of optimality is violated".
C5_NoOptimalityError ==
  NonNegativeCosts => last.err # "the principle of optimality is violated"

\* C6: when no state of column t > 0 is reached from column t - 1 and column
\* t has a valid emission, a query for t or a later column returns, winner[t]
\* is a state of column t of least valid emission cost, its accumulated cost
\* is that emission cost, it has no predecessor, and every later column up to
\* the queried one that has a valid emission has a winner.
C6_BreakageRestart ==
  (NonNegativeCosts /\ last.op = "SearchWinner" /\ last.arg < NumCols) =>
    LET asked == last.arg
    IN  \A t \in 1..asked :
          LET valid == {id \in ColumnSet(t) : ValidEmission(id)}
              w == WinnerAt(t)
          IN  (Origin(t) = t /\ valid # {}) =>
                /\ last.err = "none"
                /\ w \in valid
                /\ tr.cost[<<w, w>>] = SetMin({tr.cost[<<id, id>>] : id \in valid})
                /\ Engine_AccumulatedCost(kind, Engine, w) = tr.cost[<<w, w>>]
                /\ Engine_predecessor(kind, Engine, w) = kInvalidStateId
                /\ \A t2 \in (t + 1)..asked :
                     (\E id \in ColumnSet(t2) : ValidEmission(id)) =>
                       WinnerAt(t2) # kInvalidStateId

\* The positions an iterator i on engine e shows until it equals PathEnd().
RECURSIVE WalkFrom(_, _)
WalkFrom(i, e) ==
  IF is_end(i) THEN <<>>
  ELSE LET r == goback(i, e)
       IN  <<[id |-> i.id_, time |-> i.time_]>> \o
           (IF r.err # "none" THEN <<>> ELSE WalkFrom(r.it, r.e))

\* The sequence SearchPath(time) yields when run to the end on engine e.
RunPath(e, time) ==
  LET r == Engine_SearchWinner(kind, e, time)
  IN  IF r.err # "none" THEN <<>>
      ELSE WalkFrom([vs_ |-> kind, id_ |-> r.ret, time_ |-> time], r.e)

StateIds == DOMAIN tr.time

\* The states the host's engine holds a label for.
LabelledIds ==
  IF kind = "lazy" THEN DOMAIN lz.scanned_labels_
  ELSE {id \in StateIds : StateTime(id) < Len(nv.history_)}

\* C7: the positions shown since SearchPath(t) have times t, t-1, ... down to
\* 0 when the iterator reaches PathEnd(); each id is absent or a state of that
\* time, so the assertion of goback never fails; a predecessor lies one time
\* step earlier; and running SearchPath(t) again shows the same sequence.
C7_PathWellFormed ==
  /\ last.err # "assertion failed"
  /\ \A k \in 1..Len(walk) :
       /\ walk[k].time = walk[1].time - (k - 1)
       /\ walk[k].time >= 0
       /\ walk[k].id = kInvalidStateId \/
            (walk[k].id \in StateIds /\ StateTime(walk[k].id) = walk[k].time)
  /\ (last.op = "operator++" /\ last.err = "none" /\ is_end(it)) =>
       /\ Len(walk) = walk[1].time + 1
       /\ walk = RunPath(Engine, walk[1].time)
  /\ \A id \in LabelledIds :
       LET p == Engine_predecessor(kind, Engine, id)
       IN  p # kInvalidStateId => StateTime(p) = StateTime(id) - 1
  /\ (walk # <<>> /\ last.err = "none") =>
       IsPrefix(walk, RunPath(Engine, walk[1].time))

\* C7 witness: a walk from time 2 reached PathEnd() after crossing a restart
\* boundary, every position showing a state.
C7_Witness ==
  /\ last.op = "operator++" /\ last.err = "none" /\ is_end(it)
  /\ Len(walk) = 3
  /\ \A k \in 1..3 : walk[k].id # kInvalidStateId
  /\ \E k \in 1..2 : Engine_predecessor(kind, Engine, walk[k].id) = kInvalidStateId

\* C8 as stated: stepping back from time s > 0 with no predecessor continues
\* from winner[s-1] if present, and otherwise ends the iteration at once.
C8_TerminatesEarly ==
  [][(/\ last'.op = "operator++" /\ last'.err = "none"
      /\ it.time_ > 0
      /\ it.id_ # kInvalidStateId
      /\ Engine_predecessor(kind, Engine, it.id_) = kInvalidStateId) =>
       IF WinnerOf(Engine', it.time_ - 1) # kInvalidStateId
       THEN it'.id_ = WinnerOf(Engine', it.time_ - 1) /\ it'.time_ = it.time_ - 1
       ELSE is_end(it')]_vars

\* C8 amended: stepping back from time s > 0 with no predecessor continues
\* from winner[s-1] if present; if winner[s-1] is absent the iterator moves to
\* time s-1 with an absent id (IsValid() is false) and is not PathEnd(); it
\* becomes PathEnd() only when stepped at time 0.
C8_BreakagePolicy ==
  [][(last'.op = "operator++" /\ last'.err = "none") =>
       IF it.time_ > 0
       THEN /\ it'.time_ = it.time_ - 1
            /\ ~is_end(it')
            /\ it'.id_ =
                 IF Engine_predecessor(kind, Engine, it.id_) # kInvalidStateId
                 THEN Engine_predecessor(kind, Engine, it.id_)
                 ELSE WinnerOf(Engine', it.time_ - 1)
       ELSE is_end(it')]_vars

\* C8 witness: the iterator stepped back from a state without predecessor
\* to a time whose winner is absent, and shows an absent id there.
C8_Witness ==
  /\ last.op = "operator++" /\ last.err = "none" /\ last.arg > 0
  /\ Len(walk) >= 2
  /\ walk[Len(walk) - 1].id # kInvalidStateId
  /\ walk[Len(walk)].id = kInvalidStateId
  /\ it.id_ = kInvalidStateId /\ it.time_ = last.arg - 1
  /\ it.time_ < Searched

\* C9 as stated: SearchWinner(t) with t at or past the number of columns
\* returns absent and changes neither engine.
C9_OutOfRangePureRead ==
  [][(last'.op = "SearchWinner" /\ last'.arg >= NumCols) =>
       /\ last'.ret = kInvalidStateId
       /\ lz' = lz
       /\ nv' = nv]_vars

\* C9 amended: such a call returns absent when it returns; it leaves the naive
\* engine unchanged, and the lazy engine unchanged when the trellis is empty or
\* its winner cache already covers the last column; otherwise the lazy engine
\* first searches through the last column, as SearchWinner(last column) does.
C9_OutOfRange ==
  [][(last'.op = "SearchWinner" /\ last'.arg >= NumCols) =>
       /\ last'.err = "none" => last'.ret = kInvalidStateId
       /\ nv' = nv
       /\ IF kind = "lazy" /\ NumCols > 0 /\ Len(lz.winner_) < NumCols
          THEN /\ lz' = Lazy_SearchWinner(lz, NumCols - 1).e
               /\ last'.err = Lazy_SearchWinner(lz, NumCols - 1).err
          ELSE lz' = lz /\ last'.err = "none"]_vars

\* C9 witness: an out-of-range query made the lazy engine search the rest of
\* the trellis before it returned absent.
C9_Witness ==
  /\ kind = "lazy" /\ last.op = "SearchWinner" /\ last.err = "none"
  /\ last.arg >= NumCols /\ last.ret = kInvalidStateId
  /\ last.pre < NumCols /\ Len(lz.winner_) = NumCols
  /\ lz.winner_[NumCols] # nullptr

\* In the pruning scenario p, q and r are the states 0, 1 and 2.
InPruningScenario == tr = ScenarioPruning /\ kind = "lazy"

\* C10 as stated: settling p raises earliest_time to 1; r is settled via p
\* with cost 1; no fatal error occurs.
C10_PruningAsStated ==
  InPruningScenario =>
    /\ 0 \in DOMAIN lz.scanned_labels_ => lz.earliest_time_ >= 1
    /\ 2 \in DOMAIN lz.scanned_labels_ =>
         lz.scanned_labels_[2] = Label(1, 2, 0)
    /\ last.err = "none"

\* C10 amended: settling p leaves earliest_time at 0, since q is still
\* unreached in column 0; r is settled via p with cost 1 and predecessor p, and
\* this empties column 1 and raises earliest_time to 2; q is never settled and
\* its label stays in the queue; no fatal error occurs.
C10_Pruning ==
  InPruningScenario =>
    /\ (0 \in DOMAIN lz.scanned_labels_ /\ 2 \notin DOMAIN lz.scanned_labels_) =>
         lz.earliest_time_ = 0
    /\ 2 \in DOMAIN lz.scanned_labels_ =>
         /\ lz.scanned_labels_[2] = Label(1, 2, 0)
         /\ lz.earliest_time_ = 2
         /\ lz.winner_ = <<0, 2>>
         /\ lz.queue_ = <<Label(100, 1, nullptr)>>
    /\ 1 \notin DOMAIN lz.scanned_labels_
    /\ last.err = "none"

\* C10 witness: r has been settled and the engine was queried again.
C10_Witness ==
  /\ InPruningScenario
  /\ 2 \in DOMAIN lz.scanned_labels_
  /\ last.op = "SearchWinner" /\ last.pre = 2

\* Whether SearchWinner(time) has just returned (it did not throw).
Returned(time) == last.op = "SearchWinner" /\ last.arg = time /\ last.err = "none"

\* C11: a query for a column t of the trellis returns absent when every
\* state of column t has an invalid emission cost, and otherwise returns a
\* state of column t.
C11_WinnerPresence ==
  (NonNegativeCosts /\ last.op = "SearchWinner" /\ last.arg < NumCols) =>
    IF \A id \in ColumnSet(last.arg) : ~ValidEmission(id)
    THEN Returned(last.arg) /\ last.ret = kInvalidStateId
    ELSE Returned(last.arg) /\ last.ret \in ColumnSet(last.arg)

\* The labels a state of the next column can take from the labels `prev`:
\* the accumulated cost and the predecessor, one per usable predecessor.
Candidates(prev, state) ==
  {<<prev[j].costsofar + tr.cost[<<prev[j].state, state>>] + tr.cost[<<state, state>>],
     prev[j].state>> :
     j \in {i \in 1..Len(prev) : /\ prev[i].costsofar # kInvalidCost
                                 /\ ValidTransition(prev[i].state, state)
                                 /\ ValidEmission(state)}}

\* The positions of the labels with a valid cost.
ValidLabels(labels) == {k \in 1..Len(labels) : labels[k].costsofar # kInvalidCost}

\* C12: in the maximizing naive engine the label of every state of a searched
\* column t > 0 that has a usable predecessor holds the largest accumulated
\* cost over the usable predecessors, with a predecessor that gives it; the
\* winner of the column is a state with the largest valid label cost; and the
\* scenario {a,b},{c} gives winner c with cost 11 and predecessor a.
C12_MaximizePolarity ==
  (kind = "naive" /\ Maximize) =>
    /\ \A t \in 1..(Len(nv.history_) - 1) :
         \A k \in 1..Len(nv.history_[t + 1]) :
           LET label == nv.history_[t + 1][k]
               cand == Candidates(nv.history_[t], label.state)
           IN  cand # {} =>
                 /\ <<label.costsofar, label.predecessor>> \in cand
                 /\ \A c \in cand : c[1] <= label.costsofar
    /\ \A t \in 0..(Len(nv.history_) - 1) :
         LET labels == nv.history_[t + 1]
         IN  IF ValidLabels(labels) = {} THEN nv.winner_[t + 1] = nullptr
             ELSE \E k \in ValidLabels(labels) :
                    /\ labels[k].state = nv.winner_[t + 1]
                    /\ \A j \in ValidLabels(labels) :
                         labels[j].costsofar <= labels[k].costsofar
    /\ (tr = ScenarioMaximize /\ Len(nv.winner_) = 2) =>
         /\ nv.winner_[2] = 2
         /\ Naive_AccumulatedCost(nv, 2) = 11
         /\ Naive_predecessor(nv, 2) = 0

\* The scenario's query has been answered with c.
C12_Witness ==
  /\ kind = "naive" /\ Maximize /\ tr = ScenarioMaximize
  /\ last.op = "SearchWinner" /\ last.arg = 1 /\ last.ret = 2
  /\ Naive_AccumulatedCost(nv, 2) = 11

\* The engine as constructed, before any state was added.
EmptyEngine == IF kind = "lazy" THEN Lazy_Fresh(<<>>) ELSE Naive_Fresh(<<>>)

\* The engine the host queried first: constructed and given the trellis.
BuiltEngine == IF kind = "lazy" THEN Lazy_Fresh(tr.cols) ELSE Naive_Fresh(tr.cols)

\* After Clear the engine is as constructed; once every state is added again
\* it is the engine the first run started with.
C13_ClearedIsFresh ==
  /\ last.op = "Clear" => Engine = EmptyEngine
  /\ (host.phase = "rebuild" /\ Built) => Engine = BuiltEngine

\* A repeated query ends as it ended in the first run.
C13_SameOutputs ==
  [][(host.phase # "first" /\ host'.phase = "replay") =>
       /\ last'.arg = Head(host.calls).time
       /\ last'.ret = Head(host.calls).ret
       /\ last'.err = Head(host.calls).err]_vars

NewlyScanned == DOMAIN lz'.scanned_labels_ \ DOMAIN lz.scanned_labels_

\* Whenever the watermark is e > 0, column e - 1 has been searched and none
\* of its states is unreached.
C14_WatermarkColumnEmpty ==
  (kind = "lazy" /\ lz.earliest_time_ > 0) =>
    /\ lz.earliest_time_ <= Len(lz.winner_)
    /\ lz.unreached_states_[lz.earliest_time_] = <<>>

\* A call never lowers the watermark; when it moves it, a state of the
\* column below the new watermark was settled in the call; and no state whose
\* time is below the watermark is settled or made a winner.
C14_WatermarkSteps ==
  [][kind = "lazy" =>
       /\ lz'.earliest_time_ >= lz.earliest_time_
       /\ lz'.earliest_time_ # lz.earliest_time_ =>
            \E id \in NewlyScanned : StateTime(id) = lz'.earliest_time_ - 1
       /\ \A id \in NewlyScanned : StateTime(id) >= lz.earliest_time_
       /\ \A t \in 0..(lz.earliest_time_ - 1) : WinnerOf(lz', t) = WinnerOf(lz, t)]_vars

\* C14: across SearchWinner calls without Clear the watermark earliest_time_
\* never decreases; it moves only when a settled state empties its column and
\* is then that column's time + 1, so the column below a positive watermark is
\* empty; and no label with a time below the watermark is settled or becomes
\* a winner.
C14_PruningWatermark == []C14_WatermarkColumnEmpty /\ C14_WatermarkSteps

\* The watermark has risen while the label of a state that was never settled
\* waits in the queue with a time below it.
C14_Witness ==
  /\ kind = "lazy" /\ last.op = "SearchWinner" /\ lz.earliest_time_ > 0
  /\ \E k \in 1..Len(lz.queue_) :
       /\ StateTime(lz.queue_[k].state) < lz.earliest_time_
       /\ ~(lz.queue_[k].state \in DOMAIN lz.scanned_labels_)

\* The target SearchWinner(t) searches for: t clamped to the last column.
ClampedTarget(e, t) == Min2(t, Len(e.unreached_states_) - 1)

\* The restart loop of SearchWinner from the outcome r of a search: every
\* IterativeSearch(target, true) leaves more winners than it found, and a
\* loop that is left without an error has searched up to the target.
RECURSIVE RestartsProgress(_, _)
RestartStep(r, n, target) ==
  IF Len(n.e.winner_) > Len(r.e.winner_) THEN RestartsProgress(n, target) ELSE FALSE

RestartsProgress(r, target) ==
  IF r.err # "none" THEN TRUE
  ELSE IF r.time < target
  THEN RestartStep(r, Lazy_IterativeSearch(r.e, target, TRUE), target)
  ELSE r.time = target /\ target < Len(r.e.winner_)

\* C15: from every reachable state of the lazy engine the searches of
\* SearchWinner for every target (a time clamped to the last column) not yet
\* searched end; each restart search of the loop strictly increases the
\* number of winners; and the loop is left with the searched time equal to
\* the target.
C15_RestartProgress ==
  (kind = "lazy" /\ Usable /\ lz.unreached_states_ # <<>>) =>
    \A target \in Len(lz.winner_)..(NumCols - 1) :
      RestartsProgress(Lazy_IterativeSearch(lz, target, FALSE), target)

\* The first search of SearchWinner(t) ends below its target.
NeedsRestart(t) ==
  /\ Lazy_IterativeSearch(lz, ClampedTarget(lz, t), FALSE).err = "none"
  /\ Lazy_IterativeSearch(lz, ClampedTarget(lz, t), FALSE).time < ClampedTarget(lz, t)

\* After a call, a further call needs a restart search to reach its target.
C15_Witness ==
  /\ kind = "lazy" /\ Usable /\ last.op = "SearchWinner" /\ lz.winner_ # <<>>
  /\ \E t \in Times : t >= Len(lz.winner_) /\ NeedsRestart(t)

\* The searches of SearchWinner from the outcome r of a search: each returns
\* the time of the last winner it left, which is not beyond the target.
RECURSIVE SearchesStop(_, _)
SearchesStop(r, target) ==
  IF r.err # "none" THEN TRUE
  ELSE /\ r.time = Len(r.e.winner_) - 1
       /\ r.time <= target
       /\ r.time < target => SearchesStop(Lazy_IterativeSearch(r.e, target, TRUE), target)

\* C16: every IterativeSearch that performs a search returns the time of the
\* last winner, not beyond its target; after SearchWinner(t) on a trellis with
\* last column m the winner cache has max(previous length, min(t, m) + 1)
\* entries; no state of a time beyond the searched columns is settled; and no
\* successor of the winner at the target is in the queue before the next call.
C16_StopsAtTarget ==
  (kind = "lazy" /\ Usable /\ lz.unreached_states_ # <<>>) =>
    /\ \A id \in DOMAIN lz.scanned_labels_ : StateTime(id) < Len(lz.winner_)
    /\ \A k \in 1..Len(lz.queue_) : StateTime(lz.queue_[k].state) < Len(lz.winner_)
    /\ last.op = "SearchWinner" =>
         Len(lz.winner_) = Max2(last.pre, Min2(last.arg, NumCols - 1) + 1)
    /\ \A target \in Len(lz.winner_)..(NumCols - 1) :
         SearchesStop(Lazy_IterativeSearch(lz, target, FALSE), target)

\* A search has stopped at a column that has a successor column: the winner
\* of the target was found and its successors wait for the next call.
C16_Witness ==
  /\ kind = "lazy" /\ Usable /\ last.op = "SearchWinner"
  /\ last.pre <= last.arg /\ last.arg + 1 < NumCols
  /\ last.ret # kInvalidStateId
  /\ Len(lz.winner_) = last.arg + 1
  /\ \E id \in ColumnSet(last.arg + 1) : ValidTransition(last.ret, id) /\ ValidEmission(id)

\* The settled states of column t of the lazy engine.
SettledAt(t) == {id \in DOMAIN lz.scanned_labels_ : StateTime(id) = t}

\* Whether the settled state id has no predecessor.
Unlinked(id) == lz.scanned_labels_[id].predecessor = nullptr

\* C17: a settled label without a predecessor belongs to a state of time 0
\* or of a time s > 0 that no path from the start column of s - 1 reaches, the
\* column the search was seeded anew with; so the settled states of one
\* column all have a predecessor or all have none.
C17_AbsentPredecessorAtRestart ==
  kind = "lazy" =>
    /\ \A id \in DOMAIN lz.scanned_labels_ :
         Unlinked(id) => Origin(StateTime(id)) = StateTime(id)
    /\ \A t \in 0..(NumCols - 1) :
         \/ \A id \in SettledAt(t) : Unlinked(id)
         \/ \A id \in SettledAt(t) : ~Unlinked(id)

\* After a breakage: a settled state of a later column has no predecessor
\* and a settled state of another column has one.
C17_Witness ==
  /\ kind = "lazy" /\ last.op = "SearchWinner"
  /\ \E id \in DOMAIN lz.scanned_labels_ : StateTime(id) > 0 /\ Unlinked(id)
  /\ \E id \in DOMAIN lz.scanned_labels_ : ~Unlinked(id)

\* The predecessor the engine reports for the iterator's state.
StepPredecessor == Engine_predecessor(kind, Engine, it.id_)

\* C18: a step of an iterator obtained from SearchPath(t) that has a
\* predecessor lands on it and leaves the engine as it was; a step past an
\* absent predecessor lands on what SearchWinner gives for the time before,
\* and when it changes the engine it has searched further columns. (That
\* such a step does change the engine is the reachable state C18_Witness.)
C18_StepEffects ==
  [][(last'.op = "operator++" /\ last'.err = "none") =>
       IF it.time_ > 0 /\ StepPredecessor # kInvalidStateId
       THEN it'.id_ = StepPredecessor /\ lz' = lz /\ nv' = nv
       ELSE IF it.time_ > 0
       THEN /\ it'.id_ = (IF kind = "lazy" THEN WinnerOf(lz', it.time_ - 1)
                          ELSE WinnerOf(nv', it.time_ - 1))
            /\ (lz' # lz => Len(lz'.winner_) > Len(lz.winner_))
            /\ (nv' # nv => Len(nv'.winner_) > Len(nv.winner_))
       ELSE lz' = lz /\ nv' = nv]_vars

\* A step of the iterator has searched columns that no call had searched.
C18_Witness ==
  /\ last.op = "operator++" /\ last.err = "none"
  /\ Len(Engine.winner_) > last.pre
  /\ Len(walk) >= 2

\* The states still in column t of unreached_states_.
UnreachedAt(t) ==
  {lz.unreached_states_[t + 1][k] : k \in 1..Len(lz.unreached_states_[t + 1])}

\* The logic errors that tell of a broken partition.
PartitionErrors ==
  {"the state must exist in the column", "found a state from the future time",
   "the state must be scanned", "impossible to get invalid cost from scanned labels"}

\* C19: in every reachable state of the lazy engine a state is in
\* scanned_labels_ exactly when it has left its column of unreached_states_;
\* every scanned label has a valid cost; the settled states of a time lie
\* within the winner cache, whose entry for that time is one of them; and the
\* four internal errors are never raised.
C19_SettledUnreachedPartition ==
  kind = "lazy" =>
    /\ \A id \in StateIds :
         (id \in DOMAIN lz.scanned_labels_) <=> ~(id \in UnreachedAt(StateTime(id)))
    /\ \A id \in DOMAIN lz.scanned_labels_ :
         /\ ~IsInvalidCost(lz.scanned_labels_[id].costsofar)
         /\ lz.scanned_labels_[id].state = id
         /\ StateTime(id) < Len(lz.winner_)
         /\ WinnerOf(lz, StateTime(id)) \in SettledAt(StateTime(id))
    /\ ~(last.err \in PartitionErrors)

\* After a call a column holds a settled state and an unreached one.
C19_Witness ==
  /\ kind = "lazy" /\ last.op = "SearchWinner"
  /\ \E t \in 0..(NumCols - 1) : SettledAt(t) # {} /\ UnreachedAt(t) # {}

\* The errors of IterativeSearch and AddSuccessorsToQueue whose preconditions
\* SearchWinner establishes before it calls them.
PreconditionErrors ==
  {"empty states", "the target time is beyond the maximum allowed time",
   "impossible to have successors"}

\* C20: no SearchWinner(t) of the lazy engine, whatever t, raises 'empty
\* states', 'the target time is beyond the maximum allowed time' or
\* 'impossible to have successors'; on an empty trellis the call returns
\* absent, and for t past the last column the call that returns gives absent.
C20_NoPreconditionError ==
  kind = "lazy" =>
    /\ ~(last.err \in PreconditionErrors)
    /\ (last.op = "SearchWinner" /\ last.arg >= NumCols /\ last.err = "none") =>
         last.ret = kInvalidStateId
    /\ (last.op = "SearchWinner" /\ NumCols = 0) =>
         last.err = "none" /\ last.ret = kInvalidStateId

\* Every column had been searched, its last winner found, when a query for a
\* time past the last column came and returned absent.
C20_Witness ==
  /\ kind = "lazy" /\ last.op = "SearchWinner" /\ last.err = "none"
  /\ NumCols > 0 /\ last.arg >= NumCols /\ last.pre = NumCols
  /\ lz.winner_[NumCols] # nullptr
  /\ last.ret = kInvalidStateId

====
